---------------------------- MODULE Spec2Model ----------------------------
(***************************************************************************)
(* Digital Culture Scan dashboard (app_streamlit_dcs.py).                  *)
(*                                                                         *)
(* The script is one Streamlit page: every interaction (first visit, file  *)
(* upload, removal of the upload, change of a filter) re-executes the      *)
(* whole script from the top with the current widget state.  One action    *)
(* of the model is one such run.                                           *)
(*                                                                         *)
(* Numbers are exact rationals [n, d] in lowest terms with d > 0; NaN is   *)
(* [n |-> 0, d |-> 0].  The script computes in float64; the model states   *)
(* the value the float computation approximates.                           *)
(***************************************************************************)
EXTENDS Integers, Sequences, FiniteSets, TLC

\* Most rows a generated dataset holds.
MaxRows == 2
\* Most characters a generated column header holds.
MaxHeaderLen == 3

---------------------------------------------------------------------------
(* The state of a session                                                  *)

VARIABLES
    disk,         \* the file at default_path
    candidate,    \* the file the viewer has at hand to upload
    uploaded,     \* the file_uploader's value
    areas,        \* options of the Área selectbox as last rendered, <<>> if it was not
    niveles,      \* options of the Nivel selectbox as last rendered, <<>> if it was not
    area_sel,     \* value of the Área selectbox
    nivel_sel,    \* value of the Nivel selectbox
    outcome,      \* how the last run ended: "new", "stopped", "exception", "done"
    last,         \* the interaction that started the last run
    reads,        \* the sources load_data was called on in the last run
    steps,        \* the sections of the script the last run executed
    df,           \* the loaded dataset with PromedioGeneral
    df_f,         \* the filtered view
    enps_global,
    vals,
    bars_df,
    hm_df,
    page,         \* the elements the last run rendered, in order
    header,       \* a source column header (column normalisation on its own)
    column        \* what the list comprehension made of it

vars ==
    <<disk, candidate, uploaded, areas, niveles, area_sel, nivel_sel, outcome,
      last, reads, steps, df, df_f, enps_global, vals, bars_df, hm_df, page,
      header, column>>

---------------------------------------------------------------------------
(* Numbers                                                                 *)

Abs(i) == IF i < 0 THEN -i ELSE i

RECURSIVE GCD(_, _)
GCD(a, b) == IF b = 0 THEN a ELSE GCD(b, a % b)

NaN == [n |-> 0, d |-> 0]

Num(i) == [n |-> i, d |-> 1]

\* n / d in lowest terms, d # 0
Frac(n, d) ==
    LET g == GCD(Abs(n), Abs(d))
        s == IF d < 0 THEN -1 ELSE 1
    IN  [n |-> s * (n \div g), d |-> s * (d \div g)]

isna(v) == v.d = 0

notna(v) == ~isna(v)

\* float arithmetic: NaN propagates, x / 0 is not used by the script
Add(x, y) == IF isna(x) \/ isna(y) THEN NaN ELSE Frac(x.n * y.d + y.n * x.d, x.d * y.d)

Mul(x, y) == IF isna(x) \/ isna(y) THEN NaN ELSE Frac(x.n * y.n, x.d * y.d)

Div(x, y) == IF isna(x) \/ isna(y) THEN NaN ELSE Frac(x.n * y.d, x.d * y.n)

RECURSIVE SumSeq(_)
SumSeq(s) == IF s = <<>> THEN Num(0) ELSE Add(Head(s), SumSeq(Tail(s)))

\* Series.sum() of a boolean mask
sum(mask) == Len(SelectSeq(mask, LAMBDA b : b))

\* Series.mean() / DataFrame.mean(axis=1): NaN is skipped, mean of nothing is NaN
mean(s) ==
    LET present == SelectSeq(s, notna)
    IN  IF present = <<>> THEN NaN ELSE Div(SumSeq(present), Num(Len(present)))

RECURSIVE Pow10(_)
Pow10(k) == IF k = 0 THEN 1 ELSE 10 * Pow10(k - 1)

\* f"{x:.kf}": x rounded to k decimals, ties to even; the text is kept as
\* its sign and its digits (units of 10^-k); NaN prints "nan"
format(x, k) ==
    IF isna(x) THEN [nan |-> TRUE, neg |-> FALSE, digits |-> 0, decimals |-> k]
    ELSE LET a    == Abs(x.n) * Pow10(k)
             q    == a \div x.d
             r2   == 2 * (a % x.d)
             up   == r2 > x.d \/ (r2 = x.d /\ q % 2 = 1)
         IN  [nan |-> FALSE, neg |-> x.n < 0,
              digits |-> IF up THEN q + 1 ELSE q, decimals |-> k]

\* the string literal "0.00"
Text000 == [nan |-> FALSE, neg |-> FALSE, digits |-> 0, decimals |-> 2]

\* f"{n}" of a non-negative int
formatInt(i) == [nan |-> FALSE, neg |-> FALSE, digits |-> i, decimals |-> 0]

---------------------------------------------------------------------------
(* Text: a str is the sequence of its characters                           *)

\* the characters str.strip() removes that the generated headers use
Whitespace == {" ", "\t"}

RECURSIVE lstrip(_)
lstrip(s) == IF s # <<>> /\ Head(s) \in Whitespace THEN lstrip(Tail(s)) ELSE s

RECURSIVE rstrip(_)
rstrip(s) ==
    IF s # <<>> /\ s[Len(s)] \in Whitespace
    THEN rstrip(SubSeq(s, 1, Len(s) - 1))
    ELSE s

\* str.strip()
strip(s) == rstrip(lstrip(s))

\* str.replace(old, new) for a one-character old
RECURSIVE replace(_, _, _)
replace(s, old, new) ==
    IF s = <<>> THEN <<>>
    ELSE (IF Head(s) = old THEN new ELSE <<Head(s)>>) \o replace(Tail(s), old, new)

ColArea == <<"Á", "r", "e", "a">>

ColNivel == <<"N", "i", "v", "e", "l">>

ColAgilidad == <<"A", "g", "i", "l", "i", "d", "a", "d">>

ColEmpoderamiento == <<"E", "m", "p", "o", "d", "e", "r", "a", "m", "i", "e", "n", "t", "o">>

ColMentalidadDatos == <<"M", "e", "n", "t", "a", "l", "i", "d", "a", "d", "D", "a", "t", "o", "s">>

ColCorajeInnovar == <<"C", "o", "r", "a", "j", "e", "I", "n", "n", "o", "v", "a", "r">>

ColENPS == <<"e", "N", "P", "S">>

ColPromedioGeneral == <<"P", "r", "o", "m", "e", "d", "i", "o", "G", "e", "n", "e", "r", "a", "l">>

\* strip() without replace(" ", "")
NormalizeColumnStripOnly(c) == IF c # ColArea /\ c # ColNivel THEN strip(c) ELSE c

\* the list comprehension's element for one header c
NormalizeColumn(c) ==
    IF c # ColArea /\ c # ColNivel THEN replace(strip(c), " ", <<>>) ELSE c

---------------------------------------------------------------------------
(* Spreadsheets                                                            *)

\* a missing categorical cell
NA == "<NA>"

\* header rows of the generated workbooks: as the script names the columns,
\* and as "some excel writers" write them
PlainHeaders ==
    <<ColArea, ColNivel, ColAgilidad, ColEmpoderamiento, ColMentalidadDatos,
      ColCorajeInnovar, ColENPS>>

SpacedHeaders ==
    <<ColArea, ColNivel,
      <<" ", "A", "g", "i", "l", "i", "d", "a", "d">>,
      <<"E", "m", "p", "o", "d", "e", "r", "a", "m", "i", "e", "n", "t", "o", " ">>,
      <<"M", "e", "n", "t", "a", "l", "i", "d", "a", "d", " ", "D", "a", "t", "o", "s">>,
      <<"C", "o", "r", "a", "j", "e", " ", "I", "n", "n", "o", "v", "a", "r">>,
      <<" ", "e", "N", "P", "S", " ">>>>

\* one survey response, cells in the order of PlainHeaders
Row(area, nivel, ag, em, md, ci, enps) == <<area, nivel, ag, em, md, ci, enps>>

\* the rows generated datasets are made of: both filter attributes present
\* and missing, every eNPS class, dimension scores complete, partly missing
\* and all missing
RowPool ==
    { Row("A", "X", Num(5), Num(3), NaN,    Num(1), Num(100)),
      Row("A", "X", Num(4), Num(3), Num(3), Num(3), Num(-100)),
      Row("A", "Y", Num(2), Num(3), Num(3), Num(3), Num(0)),
      Row("B", "X", Num(2), Num(4), Num(4), Num(2), NaN),
      Row("B", "Y", NaN,    NaN,    NaN,    NaN,    Num(100)),
      Row("B", NA,  Num(1), Num(1), Num(1), Num(2), Num(-100)),
      Row(NA,  "X", Num(3), NaN,    NaN,    NaN,    Num(0)),
      Row(NA,  NA,  Num(5), Num(5), Num(4), Num(4), NaN) }

\* sequences over S of length at most k
RECURSIVE SeqsUpTo(_, _)
SeqsUpTo(S, k) ==
    IF k = 0 THEN {<<>>}
    ELSE LET shorter == SeqsUpTo(S, k - 1)
         IN  shorter \cup {Append(s, x) : s \in shorter, x \in S}

Table(headers, rows) == [columns |-> headers, rows |-> rows]

default_path == "Dataset_DCS_ReidCo.xlsx"

\* a workbook on disk or in the uploader
Workbook(sheet, table) == [exists |-> TRUE, xlsx |-> TRUE, sheets |-> (sheet :> table)]

\* no file at the path
MissingFile == [exists |-> FALSE, xlsx |-> FALSE, sheets |-> <<>>]

\* a file that is no workbook
CorruptFile == [exists |-> TRUE, xlsx |-> FALSE, sheets |-> <<>>]

\* the file_uploader's value: None, or the uploaded file
None == <<>>

UploadedFile(file) == <<file>>

\* a survey with eNPS 100, 100, -100, 0 and missing
ExampleRows ==
    << Row("A", "X", Num(4), Num(3), Num(3), Num(3), Num(100)),
       Row("A", "Y", Num(2), Num(3), Num(3), Num(3), Num(100)),
       Row("B", "Y", Num(5), Num(3), Num(3), Num(3), Num(-100)),
       Row("B", "X", Num(5), Num(3), NaN,    Num(1), Num(0)),
       Row(NA,  "Y", NaN,    NaN,    NaN,    NaN,    NaN) >>

\* what may be at default_path
DefaultFiles == {MissingFile, Workbook("Raw", Table(PlainHeaders, ExampleRows))}

\* what the viewer may upload
UploadFiles ==
    {CorruptFile,
     Workbook("Datos", Table(PlainHeaders, ExampleRows)),
     Workbook("Raw", Table(SpacedHeaders, ExampleRows))}
    \cup {Workbook("Raw", Table(PlainHeaders, rows)) : rows \in SeqsUpTo(RowPool, MaxRows)}

\* sheet_name left to its default, the first sheet
read_excel_first_sheet(content, sheet_name) ==
    IF content.exists /\ content.xlsx /\ DOMAIN content.sheets # {}
    THEN [raised |-> FALSE,
          frame  |-> content.sheets[CHOOSE k \in DOMAIN content.sheets : TRUE]]
    ELSE [raised |-> TRUE, frame |-> Table(<<>>, <<>>)]

\* pd.read_excel(io, sheet_name=...): the sheet's table, or an exception;
\* content is what io (a path or an upload) holds
read_excel(content, sheet_name) ==
    IF content.exists /\ content.xlsx /\ sheet_name \in DOMAIN content.sheets
    THEN [raised |-> FALSE, frame |-> content.sheets[sheet_name]]
    ELSE [raised |-> TRUE, frame |-> Table(<<>>, <<>>)]

\* raw.columns = [... for c in raw.columns]
NormalizeColumns(columns) == [i \in DOMAIN columns |-> NormalizeColumn(columns[i])]

load_data(content) ==
    LET raw == read_excel(content, "Raw")
    IN  IF raw.raised THEN raw
        ELSE [raised |-> FALSE,
              frame  |-> Table(NormalizeColumns(raw.frame.columns), raw.frame.rows)]

---------------------------------------------------------------------------
(* Data frames: [columns, rows], a row being its cells in column order     *)

HasColumn(frame, name) == \E i \in DOMAIN frame.columns : frame.columns[i] = name

ColumnIndex(frame, name) == CHOOSE i \in DOMAIN frame.columns : frame.columns[i] = name

\* frame[name]
Col(frame, name) ==
    [i \in 1..Len(frame.rows) |-> frame.rows[i][ColumnIndex(frame, name)]]

\* frame[mask]: the rows the boolean mask keeps, in their order
Where(frame, mask) ==
    LET kept == SelectSeq([i \in 1..Len(frame.rows) |-> i], LAMBDA i : mask[i])
    IN  Table(frame.columns, [k \in 1..Len(kept) |-> frame.rows[kept[k]]])

\* frame[name] = series
WithColumn(frame, name, series) ==
    Table(Append(frame.columns, name),
          [i \in 1..Len(frame.rows) |-> Append(frame.rows[i], series[i])])

\* missing scores counted as zero
RowMeansZeroFilled(frame, names) ==
    [i \in 1..Len(frame.rows) |->
        Div(SumSeq([k \in 1..Len(names) |->
                      LET c == frame.rows[i][ColumnIndex(frame, names[k])]
                      IN  IF isna(c) THEN Num(0) ELSE c]),
            Num(Len(names)))]

\* frame[names].mean(axis=1)
RowMeans(frame, names) ==
    [i \in 1..Len(frame.rows) |->
        mean([k \in 1..Len(names) |-> frame.rows[i][ColumnIndex(frame, names[k])]])]

notnull(c) == c # NA

\* series == value, elementwise: a missing cell equals nothing
eq(series, value) ==
    [i \in DOMAIN series |-> notnull(series[i]) /\ series[i] = value]

\* Series.dropna() of a categorical column
dropna(s) == SelectSeq(s, notnull)

\* Series.unique(): the distinct values in order of first appearance
RECURSIVE unique(_)
unique(s) ==
    IF s = <<>> THEN <<>>
    ELSE <<Head(s)>> \o unique(SelectSeq(Tail(s), LAMBDA c : c # Head(s)))

\* code point order of the category strings of RowPool
Collation == <<"A", "B", "X", "Y">>

Ord(c) == CHOOSE i \in DOMAIN Collation : Collation[i] = c

str_lt(a, b) == Ord(a) < Ord(b)

sorted(s) == SortSeq(s, str_lt)

\* groupby(key, dropna=False): the missing key is a group of its own
GroupMeansKeepingMissing(frame, key, names) ==
    LET keys == unique(Col(frame, key))
        group(k) == Where(frame, [i \in 1..Len(frame.rows) |-> Col(frame, key)[i] = k])
    IN  Table(<<key>> \o names,
              [g \in 1..Len(keys) |->
                  <<keys[g]>> \o [k \in 1..Len(names) |-> mean(Col(group(keys[g]), names[k]))]])

\* frame.groupby(key)[names].mean().reset_index(): one row per distinct
\* non-missing key, keys ascending
GroupMeans(frame, key, names) ==
    LET keys == sorted(unique(dropna(Col(frame, key))))
        group(k) == Where(frame, eq(Col(frame, key), k))
    IN  Table(<<key>> \o names,
              [g \in 1..Len(keys) |->
                  <<keys[g]>> \o [k \in 1..Len(names) |-> mean(Col(group(keys[g]), names[k]))]])

\* frame.melt(id_vars=first column): one (id, variable, value) row per value
\* column and frame row, value columns outermost
melt(frame) ==
    LET nr == Len(frame.rows)
        nv == Len(frame.columns) - 1
    IN  [j \in 1..(nv * nr) |->
            LET v == ((j - 1) \div nr) + 2
                i == ((j - 1) % nr) + 1
            IN  <<frame.rows[i][1], frame.columns[v], frame.rows[i][v]>>]

---------------------------------------------------------------------------
(* The script's computations                                               *)

radar_dims == <<ColAgilidad, ColEmpoderamiento, ColMentalidadDatos, ColCorajeInnovar>>

Todas == "(Todas)"

Todos == "(Todos)"

\* total counting promoters and detractors only
compute_enps_decided(series) ==
    LET promotores  == sum([i \in DOMAIN series |-> series[i] = Num(100)])
        detractores == sum([i \in DOMAIN series |-> series[i] = Num(-100)])
        total       == promotores + detractores
    IN  IF total = 0 THEN Num(0)
        ELSE Mul(Div(Num(promotores - detractores), Num(total)), Num(100))

compute_enps(series) ==
    LET promotores  == sum([i \in DOMAIN series |-> series[i] = Num(100)])
        detractores == sum([i \in DOMAIN series |-> series[i] = Num(-100)])
        total       == sum([i \in DOMAIN series |-> notna(series[i])])
    IN  IF total = 0 THEN Num(0)
        ELSE Mul(Div(Num(promotores - detractores), Num(total)), Num(100))

\* df["PromedioGeneral"] = df[radar_dims].mean(axis=1)
WithPromedioGeneral(frame) ==
    WithColumn(frame, ColPromedioGeneral, RowMeans(frame, radar_dims))

\* a hard-coded option list
AreasListed(frame) == <<Todas, "A", "B">>

Areas(frame) == <<Todas>> \o sorted(unique(dropna(Col(frame, ColArea))))

Niveles(frame) == <<Todos>> \o sorted(unique(dropna(Col(frame, ColNivel))))

\* st.selectbox(label, options, index=0): the widget keeps its value from
\* one run to the next while it is rendered with the same options, and
\* starts at options[index]
selectbox(options, widget) ==
    IF widget.options = options THEN widget.value ELSE options[1]

\* df_f = df.copy(), then the two conditional row selections
FilterArea(frame, sel) ==
    IF sel # Todas
    THEN Where(frame, eq(Col(frame, ColArea), sel))
    ELSE frame

FilterNivel(frame, sel) ==
    IF sel # Todos
    THEN Where(frame, eq(Col(frame, ColNivel), sel))
    ELSE frame

\* the Nivel selection taken from df instead of df_f
FilteredOverwriting(frame, asel, nsel) ==
    IF nsel # Todos THEN FilterNivel(frame, nsel) ELSE FilterArea(frame, asel)

\* the selections applied to the previous run's view when there is one
FilteredIncremental(frame, asel, nsel) ==
    FilterNivel(FilterArea(IF outcome = "done" /\ df_f.columns = frame.columns
                           THEN df_f ELSE frame, asel), nsel)

Filtered(frame, asel, nsel) == FilterNivel(FilterArea(frame, asel), nsel)

len(frame) == Len(frame.rows)

EnpsGlobal(frame) == IF len(frame) # 0 THEN compute_enps(Col(frame, ColENPS)) ELSE Num(0)

\* the three st.metric values
Kpi1(enps) == format(enps, 0)

Kpi2(frame) ==
    IF len(frame) # 0 THEN format(mean(Col(frame, ColPromedioGeneral)), 2) ELSE Text000

Kpi3(frame) == formatInt(len(frame))

\* the means without the empty-view default
ValsUnguarded(frame) ==
    [k \in 1..Len(radar_dims) |-> mean(Col(frame, radar_dims[k]))]

Vals(frame) ==
    [k \in 1..Len(radar_dims) |->
        IF len(frame) # 0 THEN mean(Col(frame, radar_dims[k])) ELSE Num(0)]

\* the Scatterpolar trace: the polygon closed on its first point
RadarFig(values) ==
    [r |-> values \o <<values[1]>>, theta |-> radar_dims \o <<radar_dims[1]>>]

BarsDf(frame) ==
    IF len(frame) # 0 THEN GroupMeans(frame, ColArea, radar_dims)
    ELSE Table(<<ColArea>> \o radar_dims, <<>>)

HmDf(frame) == GroupMeans(frame, ColArea, radar_dims)

\* DataFrame.empty
empty(frame) == Len(frame.rows) = 0 \/ Len(frame.columns) = 0

\* the static action-plan table of the RAG scatter
rag_data ==
    << <<"Daily Learning Nugget", 5, 5, "Quick Win">>,
       <<"Célula Ágil Piloto",    4, 3, "180 días">>,
       <<"Academia de Datos",     5, 2, "365 días">>,
       <<"Incentivos Digitales",  4, 4, "90-365 días">>,
       <<"Gobernanza DCS",        5, 2, "Gobernanza">> >>

---------------------------------------------------------------------------
(* The session                                                             *)

NoFrame == Table(<<>>, <<>>)

Unset == "<unset>"

NoWidget == [options |-> <<>>, value |-> Unset]

El(kind, value) == [el |-> kind, value |-> value]

\* what every run renders before it loads the data
PageHead ==
    << El("title", "Digital Culture Scan"), El("caption", "Fuente"),
       El("sidebar.header", "Fuente de datos"), El("file_uploader", "xlsx") >>

ErrorMessage == El("error", "No se pudo leer el dataset.")

HeatmapPlaceholder == El("info", "No hay datos para construir el heatmap")

\* the "if not hm_df.empty" branch
HeatmapElement(frame) ==
    IF ~empty(frame) THEN El("plotly_chart", [fig |-> "density_heatmap", data |-> melt(frame)])
    ELSE HeatmapPlaceholder

\* everything from the KPI row to the closing caption
PageBody(asel, nsel, frame, enps, values, bars, hm) ==
    << El("selectbox", asel), El("selectbox", nsel),
       El("metric", Kpi1(enps)), El("metric", Kpi2(frame)), El("metric", Kpi3(frame)),
       El("markdown", "---"),
       El("plotly_chart", [fig |-> "scatterpolar", data |-> RadarFig(values)]),
       El("plotly_chart", [fig |-> "bar", data |-> melt(bars)]),
       HeatmapElement(hm),
       El("plotly_chart", [fig |-> "scatter", data |-> rag_data]),
       El("dataframe", frame),
       El("caption", "Reid & Compañía") >>

\* default_path tried when the upload cannot be read
SourceWithFallback(upl) ==
    IF upl # None /\ ~load_data(upl[1]).raised THEN [path |-> "", buffer |-> upl]
    ELSE [path |-> default_path, buffer |-> None]

\* the try block's argument to load_data: the upload when there is one,
\* else default_path
Source(upl) ==
    IF upl # None THEN [path |-> "", buffer |-> upl]
    ELSE [path |-> default_path, buffer |-> None]

\* what a source holds: the upload's bytes, or the file at the path
Content(source) ==
    IF source.buffer # None THEN source.buffer[1]
    ELSE IF source.path = default_path THEN disk
    ELSE MissingFile

\* a run that ends before the filters are rendered
EndEarly(how, ran, shown) ==
    /\ outcome' = how
    /\ steps' = ran
    /\ page' = PageHead \o shown
    /\ areas' = <<>>
    /\ niveles' = <<>>
    /\ area_sel' = Unset
    /\ nivel_sel' = Unset
    /\ df' = NoFrame
    /\ df_f' = NoFrame
    /\ enps_global' = NaN
    /\ vals' = <<>>
    /\ bars_df' = NoFrame
    /\ hm_df' = NoFrame

\* one execution of the script, top to bottom, with the uploader holding upl
\* and the two selectboxes in the states areaWidget and nivelWidget; each
\* "\E x \in {e}" is an assignment x = e of the script.  A frame that lacks
\* a column the script indexes ends the run with the uncaught KeyError.
Run(upl, areaWidget, nivelWidget) ==
    \E source \in {Source(upl)} : \E loaded \in {load_data(Content(source))} :
        /\ reads' = <<source>>
        /\ IF loaded.raised
           THEN EndEarly("stopped", <<"load", "error", "stop">>, <<ErrorMessage>>)
           ELSE IF \E c \in {ColArea, ColNivel, ColAgilidad, ColEmpoderamiento,
                             ColMentalidadDatos, ColCorajeInnovar, ColENPS} :
                       ~HasColumn(loaded.frame, c)
           THEN EndEarly("exception", <<"load", "KeyError">>, <<El("exception", "KeyError")>>)
           ELSE \E d \in {WithPromedioGeneral(loaded.frame)} :
                \E as \in {Areas(d)}, ns \in {Niveles(d)} :
                \E asel \in {selectbox(as, areaWidget)}, nsel \in {selectbox(ns, nivelWidget)} :
                \E f \in {Filtered(d, asel, nsel)} :
                \E e \in {EnpsGlobal(f)}, v \in {Vals(f)}, b \in {BarsDf(f)}, h \in {HmDf(f)} :
                    /\ outcome' = "done"
                    /\ steps' = <<"load", "derive", "filters", "filter", "kpi", "radar",
                                  "bars", "heatmap", "rag", "preview">>
                    /\ df' = d
                    /\ areas' = as
                    /\ niveles' = ns
                    /\ area_sel' = asel
                    /\ nivel_sel' = nsel
                    /\ df_f' = f
                    /\ enps_global' = e
                    /\ vals' = v
                    /\ bars_df' = b
                    /\ hm_df' = h
                    /\ page' = PageHead \o PageBody(asel, nsel, f, e, v, b, h)

AreaWidget == [options |-> areas, value |-> area_sel]

NivelWidget == [options |-> niveles, value |-> nivel_sel]

Elems(s) == {s[i] : i \in DOMAIN s}

Init ==
    /\ disk \in DefaultFiles
    /\ candidate \in UploadFiles
    /\ uploaded = None
    /\ areas = <<>>
    /\ niveles = <<>>
    /\ area_sel = Unset
    /\ nivel_sel = Unset
    /\ outcome = "new"
    /\ last = "none"
    /\ reads = <<>>
    /\ steps = <<>>
    /\ df = NoFrame
    /\ df_f = NoFrame
    /\ enps_global = NaN
    /\ vals = <<>>
    /\ bars_df = NoFrame
    /\ hm_df = NoFrame
    /\ page = <<>>
    /\ header = <<>>
    /\ column = <<>>

\* the viewer opens the page: the first run
Open ==
    /\ outcome = "new"
    /\ last' = "open"
    /\ Run(None, NoWidget, NoWidget)
    /\ UNCHANGED <<disk, candidate, uploaded, header, column>>

\* the viewer uploads the file
Upload ==
    /\ outcome # "new"
    /\ uploaded = None
    /\ uploaded' = UploadedFile(candidate)
    /\ last' = "upload"
    /\ Run(UploadedFile(candidate), AreaWidget, NivelWidget)
    /\ UNCHANGED <<disk, candidate, header, column>>

\* the viewer removes the uploaded file
RemoveUpload ==
    /\ uploaded # None
    /\ uploaded' = None
    /\ last' = "remove"
    /\ Run(None, AreaWidget, NivelWidget)
    /\ UNCHANGED <<disk, candidate, header, column>>

\* the viewer picks another option of the Área selectbox
SelectArea ==
    \E a \in Elems(areas) :
        /\ a # area_sel
        /\ last' = "area"
        /\ Run(uploaded, [options |-> areas, value |-> a], NivelWidget)
        /\ UNCHANGED <<disk, candidate, uploaded, header, column>>

\* the viewer picks another option of the Nivel selectbox
SelectNivel ==
    \E n \in Elems(niveles) :
        /\ n # nivel_sel
        /\ last' = "nivel"
        /\ Run(uploaded, AreaWidget, [options |-> niveles, value |-> n])
        /\ UNCHANGED <<disk, candidate, uploaded, header, column>>

Next == Open \/ Upload \/ RemoveUpload \/ SelectArea \/ SelectNivel

Spec == Init /\ [][Next]_vars

---------------------------------------------------------------------------
(* Column normalisation on its own: load_data's list comprehension applied *)
(* to every short header over a small alphabet and to the headers the      *)
(* documentation names                                                     *)

HeaderChars == {" ", "\t", "a", "b"}

SourceHeaders ==
    SeqsUpTo(HeaderChars, MaxHeaderLen)
    \cup Elems(PlainHeaders) \cup Elems(SpacedHeaders)
    \cup { <<" ", "M", "y", " ", "C", "o", "l", " ">>,
           <<" ", "Á", "r", "e", "a", " ">>,
           <<"N", "i", "v", "e", "l", " ">>,
           <<"Á", "r", "e", "a", " ", "2">> }

InitColumns ==
    /\ header \in SourceHeaders
    /\ column = <<>>
    /\ steps = <<>>
    /\ disk = MissingFile
    /\ candidate = CorruptFile
    /\ uploaded = None
    /\ areas = <<>>
    /\ niveles = <<>>
    /\ area_sel = Unset
    /\ nivel_sel = Unset
    /\ outcome = "new"
    /\ last = "none"
    /\ reads = <<>>
    /\ df = NoFrame
    /\ df_f = NoFrame
    /\ enps_global = NaN
    /\ vals = <<>>
    /\ bars_df = NoFrame
    /\ hm_df = NoFrame
    /\ page = <<>>

\* load_data renames the column
Rename ==
    /\ steps = <<>>
    /\ column' = NormalizeColumns(<<header>>)[1]
    /\ steps' = <<"columns">>
    /\ UNCHANGED <<disk, candidate, uploaded, areas, niveles, area_sel, nivel_sel,
                   outcome, last, reads, df, df_f, enps_global, vals, bars_df,
                   hm_df, page, header>>

NextColumns == Rename

SpecColumns == InitColumns /\ [][NextColumns]_vars

---------------------------------------------------------------------------
(* Properties of the session                                               *)

Done == outcome = "done"

Metrics == SelectSeq(page, LAMBDA e : e.el = "metric")

\* the page carries element e
Shown(e) == \E i \in DOMAIN page : page[i].el = e.el /\ page[i].value = e.value

AreaOf(r) == r[ColumnIndex(df, ColArea)]

NivelOf(r) == r[ColumnIndex(df, ColNivel)]

\* the cells of column name in the filtered view
ViewCells(name) == Col(df_f, name)

\* a row meets every active criterion
Matches(r) ==
    /\ area_sel # Todas => AreaOf(r) # NA /\ AreaOf(r) = area_sel
    /\ nivel_sel # Todos => NivelOf(r) # NA /\ NivelOf(r) = nivel_sel

RECURSIVE IsSubsequence(_, _)
IsSubsequence(v, d) ==
    IF v = <<>> THEN TRUE
    ELSE IF d = <<>> THEN FALSE
    ELSE IF Head(v) = Head(d)
         THEN IsSubsequence(Tail(v), Tail(d)) \/ IsSubsequence(v, Tail(d))
         ELSE IsSubsequence(v, Tail(d))

\* C1: the filtered view is the subsequence of the dataset's rows, in their
\* order, that meet every active criterion in one pass; with both
\* selections at the sentinel it is the whole dataset
C1_FilteredViewIsMatchingSubsequence ==
    Done =>
        /\ df_f.columns = df.columns
        /\ df_f.rows = SelectSeq(df.rows, Matches)
        /\ IsSubsequence(df_f.rows, df.rows)
        /\ \A i \in 1..Len(df.rows) :
              Matches(df.rows[i]) <=> \E j \in 1..Len(df_f.rows) : df_f.rows[j] = df.rows[i]
        /\ (area_sel = Todas /\ nivel_sel = Todos) => df_f = df

\* both filters active, some rows kept and some dropped
C1_Witness ==
    /\ Done
    /\ area_sel # Todas
    /\ nivel_sel # Todos
    /\ len(df_f) >= 1
    /\ len(df_f) < len(df)
    /\ \E i \in 1..len(df) : AreaOf(df.rows[i]) = area_sel /\ ~Matches(df.rows[i])

Promoters == Cardinality({i \in 1..len(df_f) : ViewCells(ColENPS)[i] = Num(100)})

Detractors == Cardinality({i \in 1..len(df_f) : ViewCells(ColENPS)[i] = Num(-100)})

Answered == Cardinality({i \in 1..len(df_f) : ViewCells(ColENPS)[i] # NaN})

\* C2: the eNPS score is (P - D) / T * 100 when T > 0 and 0 when T = 0,
\* T counting every non-missing eNPS of the filtered view
C2_EnpsIsNetPromotersOverAnswered ==
    Done =>
        IF Answered > 0
        THEN /\ enps_global.d > 0
             /\ enps_global.n * Answered = (Promoters - Detractors) * 100 * enps_global.d
        ELSE enps_global = Num(0)

\* eNPS 100, 100, -100, 0, missing: P = 2, D = 1, T = 4, score 25
C2_Witness ==
    /\ Done
    /\ len(df_f) = 5
    /\ Promoters = 2
    /\ Detractors = 1
    /\ Answered = 4
    /\ enps_global = Num(25)

\* the file the last run's load_data call was given
ContentRead ==
    IF reads[1].buffer # None THEN reads[1].buffer[1] ELSE disk

\* a missing file, a file that is no workbook, or a workbook without "Raw"
ReadFails(content) ==
    \/ ~content.exists
    \/ ~content.xlsx
    \/ "Raw" \notin DOMAIN content.sheets

Kinds(elements) == {elements[i].el : i \in DOMAIN elements}

\* C3: a run whose read fails shows the error message and halts: no KPI, no
\* chart, no table, no filter, and no step after the load
C3_ReadFailureStopsTheRun ==
    (outcome # "new" /\ ReadFails(ContentRead)) =>
        /\ outcome = "stopped"
        /\ page # <<>>
        /\ page[Len(page)].el = "error"
        /\ Shown(ErrorMessage)
        /\ Kinds(page) \cap {"metric", "plotly_chart", "info", "dataframe", "selectbox"} = {}
        /\ Elems(steps) \cap {"derive", "filters", "filter", "kpi", "radar", "bars",
                              "heatmap", "rag", "preview"} = {}
        /\ df = NoFrame
        /\ df_f = NoFrame
        /\ hm_df = NoFrame
        /\ bars_df = NoFrame
        /\ vals = <<>>

\* an uploaded workbook without a "Raw" sheet
C3_Witness ==
    /\ outcome = "stopped"
    /\ uploaded # None
    /\ uploaded[1].xlsx
    /\ "Raw" \notin DOMAIN uploaded[1].sheets
    /\ Shown(ErrorMessage)

\* C4: the default source is read only when there is no upload; with an
\* upload the upload is the only source read, also when reading it fails
C4_DefaultReadOnlyWithoutUpload ==
    outcome # "new" =>
        /\ Len(reads) = 1
        /\ uploaded = None => reads[1] = [path |-> default_path, buffer |-> None]
        /\ uploaded # None => reads[1] = [path |-> "", buffer |-> uploaded]
        /\ (uploaded # None /\ ReadFails(uploaded[1])) => outcome = "stopped"

\* the upload cannot be read although the default file could
C4_Witness ==
    /\ outcome = "stopped"
    /\ uploaded # None
    /\ ReadFails(uploaded[1])
    /\ ~ReadFails(disk)
    /\ reads = <<[path |-> "", buffer |-> uploaded]>>

HeatmapCharts ==
    SelectSeq(page, LAMBDA e : e.el = "plotly_chart" /\ e.value.fig = "density_heatmap")

\* C5: a selection that matches no row is not an error: eNPS 0, the four
\* dimension means 0, Promedio General "0.00", 0 responses, and the heatmap
\* placeholder
C5_EmptyViewShowsZerosAndPlaceholder ==
    (outcome \notin {"new", "stopped"} /\ len(df_f) = 0) =>
        /\ Done
        /\ enps_global = Num(0)
        /\ vals = <<Num(0), Num(0), Num(0), Num(0)>>
        /\ Len(Metrics) = 3
        /\ Metrics[1].value = [nan |-> FALSE, neg |-> FALSE, digits |-> 0, decimals |-> 0]
        /\ Metrics[2].value = [nan |-> FALSE, neg |-> FALSE, digits |-> 0, decimals |-> 2]
        /\ Metrics[3].value = [nan |-> FALSE, neg |-> FALSE, digits |-> 0, decimals |-> 0]
        /\ Shown(HeatmapPlaceholder)
        /\ HeatmapCharts = <<>>

\* an Área and a Nivel that both occur in the dataset, never on one row
C5_Witness ==
    /\ Done
    /\ len(df_f) = 0
    /\ area_sel # Todas
    /\ nivel_sel # Todos
    /\ \E i \in 1..len(df) : AreaOf(df.rows[i]) = area_sel
    /\ \E i \in 1..len(df) : NivelOf(df.rows[i]) = nivel_sel

DimsOf(r) == [k \in 1..4 |-> r[ColumnIndex(df, radar_dims[k])]]

PromedioOf(r) == r[ColumnIndex(df, ColPromedioGeneral)]

\* sum and number of the non-missing values of cells (NaN carries n = 0)
RECURSIVE Total(_)
Total(cells) == IF cells = <<>> THEN 0 ELSE Head(cells).n + Total(Tail(cells))

Present(cells) == Cardinality({i \in DOMAIN cells : cells[i] # NaN})

\* m is the mean of the non-missing integer values of cells, NaN if none
IsMeanOf(m, cells) ==
    IF Present(cells) = 0 THEN m = NaN
    ELSE m.d > 0 /\ m.n * Present(cells) = Total(cells) * m.d

\* C7: PromedioGeneral is the mean of the row's non-missing dimension
\* scores, missing (not 0) when all four are missing, and a row of the
\* filtered view carries the value it has in the unfiltered dataset
C7_PromedioGeneralIsRowMean ==
    Done =>
        /\ \A i \in 1..len(df) :
              /\ IsMeanOf(PromedioOf(df.rows[i]), DimsOf(df.rows[i]))
              /\ Present(DimsOf(df.rows[i])) = 0 => PromedioOf(df.rows[i]) # Num(0)
        /\ \A j \in 1..len(df_f) :
              /\ IsMeanOf(PromedioOf(df_f.rows[j]), DimsOf(df_f.rows[j]))
              /\ \E i \in 1..len(df) : df.rows[i] = df_f.rows[j]

\* scores 5, 3, missing, 1 average 3 in a filtered view, beside a row with
\* no score at all
C7_Witness ==
    /\ Done
    /\ len(df_f) < len(df)
    /\ \E j \in 1..len(df_f) :
          /\ DimsOf(df_f.rows[j]) = <<Num(5), Num(3), NaN, Num(1)>>
          /\ PromedioOf(df_f.rows[j]) = Num(3)
    /\ \E i \in 1..len(df) :
          /\ Present(DimsOf(df.rows[i])) = 0
          /\ PromedioOf(df.rows[i]) = NaN

\* the distinct non-missing Área values of the filtered view
Groups == {AreaOf(df_f.rows[i]) : i \in 1..len(df_f)} \ {NA}

\* the cells of column name on the view's rows of Área a
GroupCells(a, name) ==
    LET rows == SelectSeq(df_f.rows, LAMBDA r : AreaOf(r) = a)
    IN  [i \in 1..Len(rows) |-> rows[i][ColumnIndex(df, name)]]

\* frame holds one row per group, each the group's four dimension means
IsPerAreaMeans(frame) ==
    /\ {frame.rows[g][1] : g \in 1..Len(frame.rows)} = Groups
    /\ Len(frame.rows) = Cardinality(Groups)
    /\ \A g \in 1..Len(frame.rows) : \A k \in 1..4 :
          IsMeanOf(frame.rows[g][k + 1], GroupCells(frame.rows[g][1], radar_dims[k]))

\* every value of the run follows from df and the two selections
ViewDetermined ==
    /\ df_f.rows = SelectSeq(df.rows, Matches)
    /\ IF Answered > 0
       THEN enps_global.n * Answered = (Promoters - Detractors) * 100 * enps_global.d
       ELSE enps_global = Num(0)
    /\ \A k \in 1..4 :
          IF len(df_f) = 0 THEN vals[k] = Num(0)
          ELSE IsMeanOf(vals[k], ViewCells(radar_dims[k]))
    /\ IsPerAreaMeans(bars_df)
    /\ IsPerAreaMeans(hm_df)
    /\ Metrics[3].value.digits = Len(SelectSeq(df.rows, Matches))

\* C8: across filter changes over the same source the view and what is
\* derived from it follow from the dataset and the current selections
\* alone, and both selections back at the sentinel give the whole dataset
C8_ViewDependsOnCurrentSelectionOnly ==
    [][(Done /\ Done' /\ df' = df) =>
          /\ ViewDetermined'
          /\ (area_sel' = Todas /\ nivel_sel' = Todos) => df_f' = df]_vars

\* a filter was set back to the sentinel and the whole dataset is shown
C8_Witness ==
    /\ Done
    /\ last \in {"area", "nivel"}
    /\ area_sel = Todas
    /\ nivel_sel = Todos
    /\ len(df) > 1
    /\ df_f = df

\* C9: the placeholder replaces the heatmap exactly when the filtered view
\* has no group, which holds for an empty view and for a view whose Área
\* is missing on every row; otherwise the chart has one row per group
C9_PlaceholderIffNoGroup ==
    Done =>
        /\ Shown(HeatmapPlaceholder) <=> Groups = {}
        /\ Len(HeatmapCharts) = (IF Groups = {} THEN 0 ELSE 1)
        /\ len(df_f) = 0 => Shown(HeatmapPlaceholder)
        /\ (\A i \in 1..len(df_f) : AreaOf(df_f.rows[i]) = NA)
              => Shown(HeatmapPlaceholder)
        /\ Groups # {} =>
              LET data == HeatmapCharts[1].value.data
              IN  /\ {data[j][1] : j \in DOMAIN data} = Groups
                  /\ Len(data) = 4 * Cardinality(Groups)
                  /\ \A a \in Groups : \A k \in 1..4 :
                        Cardinality({j \in DOMAIN data :
                                        data[j][1] = a /\ data[j][2] = radar_dims[k]}) = 1

\* rows are shown, none of them has an Área
C9_Witness ==
    /\ Done
    /\ len(df_f) > 0
    /\ Groups = {}
    /\ Shown(HeatmapPlaceholder)

\* C10: the options of each filter are the sentinel and the distinct
\* non-missing values of the unfiltered dataset, so one active filter alone
\* never empties the view
C10_OneFilterKeepsRows ==
    Done =>
        /\ areas[1] = Todas
        /\ Elems(Tail(areas)) = {AreaOf(df.rows[i]) : i \in 1..len(df)} \ {NA}
        /\ niveles[1] = Todos
        /\ Elems(Tail(niveles)) = {NivelOf(df.rows[i]) : i \in 1..len(df)} \ {NA}
        /\ area_sel \in Elems(areas)
        /\ nivel_sel \in Elems(niveles)
        /\ ((area_sel # Todas) # (nivel_sel # Todos)) => len(df_f) >= 1
        /\ len(df_f) = 0 => (area_sel # Todas /\ nivel_sel # Todos) \/ len(df) = 0

\* the Área filter alone, keeping some rows and dropping others
C10_Witness ==
    /\ Done
    /\ area_sel # Todas
    /\ nivel_sel = Todos
    /\ len(df_f) >= 1
    /\ len(df_f) < len(df)

---------------------------------------------------------------------------
(* Properties of the column normalisation                                  *)

Min(S) == CHOOSE x \in S : \A y \in S : x <= y

Max(S) == CHOOSE x \in S : \A y \in S : x >= y

\* h without its leading and trailing whitespace
Trimmed(h) ==
    LET inked == {i \in DOMAIN h : h[i] \notin {" ", "\t"}}
    IN  IF inked = {} THEN <<>> ELSE SubSeq(h, Min(inked), Max(inked))

\* C6 as stated: a header that is Área or Nivel, whatever whitespace
\* surrounds it, is left as it is; every other header becomes the source
\* header trimmed, with its inner spaces removed
C6_NamedHeadersKeptWithSurroundingWhitespace ==
    steps = <<"columns">> =>
        IF Trimmed(header) \in {ColArea, ColNivel}
        THEN column = header
        ELSE column = SelectSeq(Trimmed(header), LAMBDA c : c # " ")

\* C6 amended: only a header equal to Área or Nivel is exempt (and stays as
\* it is); every other header, Área or Nivel with surrounding whitespace
\* included, becomes the source header trimmed, with its inner spaces removed
C6_HeadersTrimmedAndSpacesRemoved ==
    steps = <<"columns">> =>
        IF header \notin {ColArea, ColNivel}
        THEN column = SelectSeq(Trimmed(header), LAMBDA c : c # " ")
        ELSE column = header

\* " Área " is not exempt: it becomes "Área"
C6_Witness ==
    /\ steps = <<"columns">>
    /\ header = <<" ", "Á", "r", "e", "a", " ">>
    /\ column = ColArea

=============================================================================
